---- MODULE Spec2Model ----
(***************************************************************************)
(* Discount calculator: value objects (Money, Percentage, CartItem),       *)
(* discount conditions, discounts, the best-discount resolver and the      *)
(* calculator service.  Every method of the library is a pure function;    *)
(* the resolver's loop is modelled step by step.                           *)
(***************************************************************************)
EXTENDS Integers, Sequences, FiniteSets

(***************************************************************************)
(* Bounds of the model and the samples the inputs are drawn from.          *)
(***************************************************************************)
MaxPrice == 3
MaxQuantity == 2
MaxAmount == 3
MaxConditions == 2
MaxDiscounts == 2
MaxCartItems == 2
MaxExcess == 2
MaxCalls == 3

Currencies == {"EUR", "USD"}
Codes == {"A", "B"}
\* CartItem validates neither the price nor the quantity: negatives are inputs.
Prices == -1 .. MaxPrice
Quantities == -1 .. MaxQuantity
\* AmountDiscount does not validate the sign of its amount.
Amounts == -1 .. MaxAmount
PercentageValues == {0, 50, 100}
\* The price and the percentage of the rounding test (99 * 15 // 100 = 14),
\* for the discount taken alone.
TestPrice == 99
TestPercentage == 15

(***************************************************************************)
(* Value objects (domain/value_objects.py).                                *)
(***************************************************************************)
\* Python's None.
None == [none |-> TRUE]

\* Money.__init__: no validation.
Money(amount, currency) == [amount |-> amount, currency |-> currency]

\* The ValueError raised by Money.__add__ and by Percentage.__init__, as the
\* outcome of a call.
ValueError == [raised |-> "ValueError"]

\* Percentage.__init__ with the bounds themselves rejected.
Percentage_exclusive(percentage) ==
    IF percentage <= 0 \/ percentage >= 100
    THEN ValueError
    ELSE [percentage |-> percentage]

\* Percentage.__init__: raises outside 0..100.
Percentage(percentage) ==
    IF percentage < 0 \/ percentage > 100
    THEN ValueError
    ELSE [percentage |-> percentage]

\* CartItem.__init__: no validation.
CartItem(code, price, quantity) ==
    [code |-> code, price |-> price, quantity |-> quantity]

\* CartItem.total_price forgetting the quantity.
total_price_unit(cart_item) ==
    Money(cart_item.price.amount, cart_item.price.currency)

\* CartItem.total_price
total_price(cart_item) ==
    Money(cart_item.quantity * cart_item.price.amount, cart_item.price.currency)

\* The AttributeError of assigning to a property that has no setter.
AttributeError == [raised |-> "AttributeError"]

\* The read-only properties of the value objects: each is declared with
\* @property alone, over a name-mangled private field.
MoneyProperties == {"amount", "currency"}
PercentageProperties == {"percentage"}
CartItemProperties == {"code", "price", "quantity", "total_price"}

\* Assignment as it works on a plain attribute: the value is stored.
setattr_plain(self, properties, name, value) ==
    [f \in DOMAIN self \cup {name} |-> IF f = name THEN value ELSE self[f]]

\* The object after `self.name = value`: a property without a setter
\* refuses the assignment, any other name is stored as an attribute.
setattr(self, properties, name, value) ==
    IF name \in properties
    THEN self
    ELSE [f \in DOMAIN self \cup {name} |-> IF f = name THEN value ELSE self[f]]

\* What `self.name = value` raises, None if it raises nothing.
setattr_outcome(properties, name) ==
    IF name \in properties THEN AttributeError ELSE None

\* The integer 0 that sum() starts from.
IntZero == [int |-> 0]

\* Money.__add__ without the currency test.
Money_add_unchecked(self, other) ==
    Money(self.amount + other.amount, self.currency)

\* Money.__add__ that lets a zero amount of another currency through.
Money_add_zero_passes(self, other) ==
    IF self.currency # other.currency /\ self.amount # 0 /\ other.amount # 0
    THEN ValueError
    ELSE Money(self.amount + other.amount, self.currency)

\* Money.__add__ with a Money as `other`.
Money_add(self, other) ==
    IF self.currency # other.currency
    THEN ValueError
    ELSE Money(self.amount + other.amount, self.currency)

\* Money.__radd__ that gives 0 + x as a zero Money, losing x.
Money_radd_loses(self, other) ==
    IF other = IntZero THEN Money(0, self.currency) ELSE Money_add(self, other)

\* Money.__radd__: `other` is what stands left of the +.
Money_radd(self, other) ==
    IF other = IntZero THEN self ELSE Money_add(self, other)

\* acc + x inside sum(): int.__add__ gives NotImplemented for a Money, so
\* Python calls x.__radd__(acc); a Money on the left calls acc.__add__(x).
Plus(acc, x) ==
    IF acc = IntZero THEN Money_radd(x, acc) ELSE Money_add(acc, x)

\* sum(xs) continued from position k with accumulator acc; an exception
\* ends the call.
RECURSIVE SumFrom(_, _, _)
SumFrom(acc, xs, k) ==
    IF acc = ValueError \/ k > Len(xs)
    THEN acc
    ELSE SumFrom(Plus(acc, xs[k]), xs, k + 1)

\* sum(xs) that starts from a Money instead of the integer 0.
sum_from_money(xs) == SumFrom(Money(0, "EUR"), xs, 1)

\* The builtin sum(xs).
sum(xs) == SumFrom(IntZero, xs, 1)

(***************************************************************************)
(* Discount conditions (domain/entities/discount_condition.py).            *)
(***************************************************************************)
\* The NotImplementedError raised by the methods of the base classes, as the
\* outcome of a call.
NotImplementedError == [raised |-> "NotImplementedError"]

\* An instance of the base class DiscountCondition.
DiscountCondition == [type |-> "DiscountCondition"]

\* DiscountCondition.is_eligible with an empty body, returning None.
DiscountCondition_is_eligible_pass(condition, cart_item) == None

\* DiscountCondition.is_eligible
DiscountCondition_is_eligible(condition, cart_item) == NotImplementedError

MinQuantityDiscountCondition(min_quantity) ==
    [type |-> "MinQuantityDiscountCondition", min_quantity |-> min_quantity]

ProductCodeDiscountCondition(product_codes) ==
    [type |-> "ProductCodeDiscountCondition", product_codes |-> product_codes]

\* MinQuantityDiscountCondition.is_eligible with > for >=.
MinQuantity_is_eligible_above(condition, cart_item) ==
    cart_item.quantity > condition.min_quantity

\* MinQuantityDiscountCondition.is_eligible
MinQuantity_is_eligible(condition, cart_item) ==
    cart_item.quantity >= condition.min_quantity

\* Upper case of the product codes of the model.
Upper(code) == IF code = "a" THEN "A" ELSE code

\* ProductCodeDiscountCondition.is_eligible comparing without case.
ProductCode_is_eligible_nocase(condition, cart_item) ==
    Upper(cart_item.code) \in {Upper(c) : c \in condition.product_codes}

\* ProductCodeDiscountCondition.is_eligible
ProductCode_is_eligible(condition, cart_item) ==
    cart_item.code \in condition.product_codes

\* c.is_eligible(cart_item): dynamic dispatch on the condition's class.
Condition_is_eligible(condition, cart_item) ==
    CASE condition.type = "MinQuantityDiscountCondition" ->
             MinQuantity_is_eligible(condition, cart_item)
      [] condition.type = "ProductCodeDiscountCondition" ->
             ProductCode_is_eligible(condition, cart_item)
      [] condition.type = "DiscountCondition" ->
             DiscountCondition_is_eligible(condition, cart_item)

(***************************************************************************)
(* Discounts (domain/entities/discount.py).                                *)
(***************************************************************************)
\* A Python list passed where None is allowed too.
List(items) == [items |-> items]

\* Discount.__init__: self.conditions = conditions or []
\* (None and the empty list are falsy).
Discount_init(conditions) ==
    IF conditions = None \/ conditions.items = <<>>
    THEN <<>>
    ELSE conditions.items

\* AmountDiscount.__init__
AmountDiscount(amount, conditions) ==
    [type |-> "AmountDiscount", amount |-> amount,
     conditions |-> Discount_init(conditions)]

\* An instance of the base class Discount.
Discount(conditions) ==
    [type |-> "Discount", conditions |-> Discount_init(conditions)]

\* PercentageDiscount.__init__
PercentageDiscount(percentage, conditions) ==
    [type |-> "PercentageDiscount", percentage |-> percentage,
     conditions |-> Discount_init(conditions)]

\* is_eligible looking at the first condition only.
is_eligible_first(discount, cart_item) ==
    \/ discount.conditions = <<>>
    \/ Condition_is_eligible(discount.conditions[1], cart_item)

\* Discount.is_eligible: all([c.is_eligible(cart_item) for c in self.conditions])
is_eligible(discount, cart_item) ==
    \A k \in 1 .. Len(discount.conditions) :
        Condition_is_eligible(discount.conditions[k], cart_item)

\* Discount._calculate of the base class.
Discount_calculate(discount, cart_item) == NotImplementedError

\* AmountDiscount._calculate applying the amount once per unit.
AmountDiscount_calculate_per_unit(discount, cart_item) ==
    Money(discount.amount.amount * cart_item.quantity, discount.amount.currency)

\* AmountDiscount._calculate
AmountDiscount_calculate(discount, cart_item) == discount.amount

\* PercentageDiscount._calculate taking the percentage of the line's total.
PercentageDiscount_calculate_total(discount, cart_item) ==
    LET price == total_price(cart_item)
        amount == (price.amount * discount.percentage.percentage) \div 100
    IN  Money(amount, price.currency)

\* PercentageDiscount._calculate: Python's // is floor division, as \div is.
PercentageDiscount_calculate(discount, cart_item) ==
    LET price == cart_item.price
        amount == (price.amount * discount.percentage.percentage) \div 100
    IN  Money(amount, price.currency)

\* self._calculate(cart_item): dynamic dispatch on the discount's class.
_calculate(discount, cart_item) ==
    CASE discount.type = "AmountDiscount" ->
             AmountDiscount_calculate(discount, cart_item)
      [] discount.type = "PercentageDiscount" ->
             PercentageDiscount_calculate(discount, cart_item)
      [] discount.type = "Discount" ->
             Discount_calculate(discount, cart_item)

\* Discount.calculate without the currency check.
calculate_any_currency(discount, cart_item) ==
    IF ~is_eligible(discount, cart_item)
    THEN None
    ELSE _calculate(discount, cart_item)

\* Discount.calculate testing the amount's truth value as if a zero Money
\* were falsy.
calculate_zero_absent(discount, cart_item) ==
    IF ~is_eligible(discount, cart_item)
    THEN None
    ELSE LET amount == _calculate(discount, cart_item)
         IN  IF amount.amount = 0 \/ amount.currency # cart_item.price.currency
             THEN None
             ELSE amount

\* Discount.calculate
calculate(discount, cart_item) ==
    IF ~is_eligible(discount, cart_item)
    THEN None
    ELSE LET amount == _calculate(discount, cart_item)
         IN  IF amount.currency # cart_item.price.currency
             THEN None
             ELSE amount

(***************************************************************************)
(* Resolver (domain/services/discount_resolver_service.py).                *)
(***************************************************************************)
\* DiscountResolverService._calculate_discount of the base class.
DiscountResolverService_calculate_discount(discounts, cart_item) ==
    NotImplementedError

\* Replaces with >= for >: a later equal amount would replace the best.
Replaces_ge(discount_value, best_discount_value) ==
    /\ discount_value # None
    /\ discount_value.amount >= best_discount_value.amount

\* Replaces without the comparison: every present value replaces the best.
Replaces_present(discount_value, best_discount_value) ==
    discount_value # None

\* The test of the loop of BestDiscountResolverService._calculate_discount:
\* `discount_value and discount_value.amount > best_discount_value.amount`.
\* Money defines neither __bool__ nor __len__, so every Money is truthy and
\* only None is falsy.
Replaces(discount_value, best_discount_value) ==
    /\ discount_value # None
    /\ discount_value.amount > best_discount_value.amount

\* BestStep keeping the last present value instead of the largest.
BestStep_last(best_discount_value, discount, cart_item) ==
    LET discount_value == calculate(discount, cart_item)
    IN  IF discount_value # None THEN discount_value ELSE best_discount_value

\* BestStep adding every present value to the best instead of replacing it.
BestStep_stack(best_discount_value, discount, cart_item) ==
    LET discount_value == calculate(discount, cart_item)
    IN  IF discount_value # None /\ discount_value.amount > 0
        THEN Money(best_discount_value.amount + discount_value.amount,
                   best_discount_value.currency)
        ELSE best_discount_value

\* One iteration of the loop: the best value after looking at `discount`.
BestStep(best_discount_value, discount, cart_item) ==
    LET discount_value == calculate(discount, cart_item)
    IN  IF Replaces(discount_value, best_discount_value)
        THEN discount_value
        ELSE best_discount_value

\* The loop run from `best_discount_value` over discounts[k .. Len(discounts)].
RECURSIVE BestFrom(_, _, _, _)
BestFrom(best_discount_value, discounts, k, cart_item) ==
    IF k > Len(discounts)
    THEN best_discount_value
    ELSE BestFrom(BestStep(best_discount_value, discounts[k], cart_item),
                  discounts, k + 1, cart_item)

\* BestDiscountResolverService._calculate_discount.  The default is built as
\* Money(0.0, currency); 0.0 compares and adds as the integer 0.
_calculate_discount(discounts, cart_item) ==
    BestFrom(Money(0, cart_item.price.currency), discounts, 1, cart_item)

\* Cap comparing with the unit price instead of the total price.
Cap_unit(discount_value, cart_item) ==
    IF discount_value.amount > cart_item.price.amount
    THEN total_price(cart_item)
    ELSE discount_value

\* Cap with >= for >: a value equal to the total is replaced too.
Cap_ge(discount_value, cart_item) ==
    IF discount_value.amount >= total_price(cart_item).amount
    THEN total_price(cart_item)
    ELSE discount_value

\* Cap that gives no discount at all when the value exceeds the total.
Cap_drop(discount_value, cart_item) ==
    IF discount_value.amount > total_price(cart_item).amount
    THEN Money(0, cart_item.price.currency)
    ELSE discount_value

\* The cap of DiscountResolverService.calculate_discount.
Cap(discount_value, cart_item) ==
    IF discount_value.amount > total_price(cart_item).amount
    THEN total_price(cart_item)
    ELSE discount_value

\* DiscountResolverService.calculate_discount
calculate_discount(discounts, cart_item) ==
    Cap(_calculate_discount(discounts, cart_item), cart_item)

(***************************************************************************)
(* Calculator (domain/services/calculator_service.py).                     *)
(***************************************************************************)
\* The TypeError of iterating an object that is not iterable.
TypeError == [raised |-> "TypeError"]

\* A resolver object: DiscountResolverService.__init__ stores its argument,
\* whatever it is, as self.discounts.
Resolver(class, discounts) == [class |-> class, discounts |-> discounts]

\* Mock(spec=DiscountResolverService) of the calculator's unit tests, with
\* calculate_discount.return_value set.
MockResolver(return_value) == [class |-> "Mock", return_value |-> return_value]

\* DiscountCalculatorService.__init__: the value of
\* self.discount_resolver_service, resolver_class(discounts).
DiscountCalculatorService_init(discounts, resolver_class) ==
    Resolver(resolver_class, discounts)

\* resolver.calculate_discount(cart_item) on a resolver object. The loop of
\* BestDiscountResolverService._calculate_discount iterates self.discounts,
\* which raises TypeError unless it is a list.
resolver_calculate_discount(resolver, cart_item) ==
    CASE resolver.class = "Mock" -> resolver.return_value
      [] resolver.class = "BestDiscountResolverService" ->
             IF "items" \in DOMAIN resolver.discounts
             THEN calculate_discount(resolver.discounts.items, cart_item)
             ELSE TypeError

\* The list comprehension of calculate_total_discount.
ItemDiscounts(resolver, cart_items) ==
    [k \in 1 .. Len(cart_items) |->
        resolver_calculate_discount(resolver, cart_items[k])]

\* DiscountCalculatorService.calculate_total_discount; an exception inside
\* the comprehension ends the call before sum().
calculate_total_discount(resolver, cart_items) ==
    LET results == ItemDiscounts(resolver, cart_items)
    IN  IF \E k \in 1 .. Len(results) : results[k] = TypeError
        THEN TypeError
        ELSE sum(results)

(***************************************************************************)
(* Inputs.                                                                 *)
(***************************************************************************)
RECURSIVE SeqsUpTo(_, _)
\* All sequences over S of length at most n.
SeqsUpTo(S, n) ==
    IF n = 0
    THEN {<<>>}
    ELSE LET shorter == SeqsUpTo(S, n - 1)
         IN  shorter \cup {Append(s, x) : s \in shorter, x \in S}

CartItemPool ==
    {CartItem(code, Money(p, cur), q) :
        code \in Codes, p \in Prices, cur \in Currencies, q \in Quantities}

\* The cart items a single discount is applied to.
DiscountCartItemPool ==
    CartItemPool
    \cup {CartItem(code, Money(TestPrice, cur), q) :
              code \in Codes, cur \in Currencies, q \in Quantities}

ConditionPool ==
    {MinQuantityDiscountCondition(m) : m \in 1 .. MaxQuantity}
    \cup {ProductCodeDiscountCondition(S) : S \in SUBSET Codes}

\* What a caller passes as `conditions`: None or a list.
ConditionArgs ==
    {None} \cup {List(s) : s \in SeqsUpTo(ConditionPool, MaxConditions)}

\* The discounts of the resolver's lists: every amount and percentage without
\* conditions, and the largest of each with a minimum quantity.
ResolverCondition == List(<<MinQuantityDiscountCondition(MaxQuantity)>>)

ResolverDiscountPool ==
    {AmountDiscount(Money(a, cur), None) : a \in Amounts, cur \in Currencies}
    \cup {PercentageDiscount(Percentage(p), None) : p \in PercentageValues}
    \cup {AmountDiscount(Money(MaxAmount, cur), ResolverCondition) :
              cur \in Currencies}
    \cup {PercentageDiscount(Percentage(100), ResolverCondition)}

ResolverCartItemPool == {c \in CartItemPool : c.code = "A"}

\* The carts and discount lists of the calculator.
CalculatorCartItemPool ==
    {CartItem("A", Money(p, cur), q) :
        p \in {1, MaxPrice}, cur \in Currencies, q \in {1, MaxQuantity}}

CalculatorDiscountPool ==
    {AmountDiscount(Money(a, cur), None) : a \in {1, MaxAmount}, cur \in Currencies}
    \cup {PercentageDiscount(Percentage(50),
                             List(<<MinQuantityDiscountCondition(MaxQuantity)>>))}

\* The resolver objects handed to DiscountCalculatorService(): mocks with a
\* fixed return value, and resolvers over at most one discount.
InjectedResolverPool ==
    {MockResolver(Money(a, cur)) : a \in {1, MaxAmount}, cur \in Currencies}
    \cup {Resolver("BestDiscountResolverService", List(ds)) :
              ds \in SeqsUpTo(CalculatorDiscountPool, 1)}

\* The discounts and the cart items of a calculator that is called
\* repeatedly.
SessionDiscountPool ==
    {AmountDiscount(Money(MaxAmount, "EUR"), None),
     PercentageDiscount(Percentage(50),
                        List(<<MinQuantityDiscountCondition(MaxQuantity)>>))}

SessionCartItemPool ==
    {CartItem("A", Money(MaxPrice, "EUR"), 1),
     CartItem("A", Money(MaxPrice, "EUR"), MaxQuantity),
     CartItem("A", Money(MaxPrice, "USD"), 1)}

\* The lists over S of length at most n in which nothing occurs twice.
DistinctSeqsUpTo(S, n) ==
    {s \in SeqsUpTo(S, n) : \A i, j \in 1 .. Len(s) : s[i] = s[j] => i = j}

\* The values an assignment tries to store in the attribute `name`; each
\* differs from what the objects above hold.
AssignValues(name) ==
    CASE name \in {"amount", "quantity", "percentage"} -> {0}
      [] name = "currency" -> {"GBP"}
      [] name = "code" -> {"B"}
      [] name = "price" -> {Money(0, "EUR")}

\* Inputs of the methods called on their own.
MoneyPool == {Money(a, cur) : a \in Amounts, cur \in Currencies}

\* What Percentage() is called with: MaxExcess below 0 to MaxExcess above 100.
PercentageArgs == (0 - MaxExcess) .. (100 + MaxExcess)

\* Product codes, with one that differs from another by case only.
CaseCodes == Codes \cup {"a"}

MinQuantities == 0 .. MaxQuantity + 1

(***************************************************************************)
(* State.                                                                  *)
(***************************************************************************)
VARIABLES
    pc,                   \* where the caller is
    conditions,           \* the `conditions` argument the discount was built with
    discounts,            \* the discount under test, or the resolver's self.discounts
    cart_item,            \* the cart_item of the call
    idx,                  \* position of the loop in self.discounts
    best_discount_value,  \* local of _calculate_discount
    best_from,            \* the discount whose value best_discount_value refers to (0: the default)
    calls,                \* the discounts calculate() was invoked on, in order
    cart_items,           \* the cart of calculate_total_discount
    item_discounts,       \* the per-item list built by calculate_total_discount
    args,                 \* the receiver and arguments of a method called on its own
    discount_resolver_service,  \* the calculator's self.discount_resolver_service
    history,              \* the earlier calls on one calculator: operation, input, outcome
    result                \* the value the call returned, or the exception it raised

vars == <<pc, conditions, discounts, cart_item, idx, best_discount_value,
          best_from, calls, cart_items, item_discounts, args,
          discount_resolver_service, history, result>>

Init ==
    /\ pc = "new"
    /\ conditions = None
    /\ discounts = <<>>
    /\ cart_item = None
    /\ idx = 0
    /\ best_discount_value = None
    /\ best_from = 0
    /\ calls = <<>>
    /\ cart_items = <<>>
    /\ item_discounts = <<>>
    /\ args = None
    /\ discount_resolver_service = None
    /\ history = <<>>
    /\ result = None

(***************************************************************************)
(* Discount: construction, is_eligible, calculate.                         *)
(***************************************************************************)
NewAmountDiscount ==
    /\ pc = "new"
    /\ \E a \in Amounts, cur \in Currencies, conds \in ConditionArgs :
          /\ conditions' = conds
          /\ discounts' = <<AmountDiscount(Money(a, cur), conds)>>
    /\ pc' = "discount"
    /\ UNCHANGED <<history, args, discount_resolver_service,
                   cart_item, idx, best_discount_value, best_from, calls, cart_items,
                   item_discounts, result>>

NewPercentageDiscount ==
    /\ pc = "new"
    /\ \E p \in PercentageValues \cup {TestPercentage}, conds \in ConditionArgs :
          /\ conditions' = conds
          /\ discounts' = <<PercentageDiscount(Percentage(p), conds)>>
    /\ pc' = "discount"
    /\ UNCHANGED <<history, args, discount_resolver_service,
                   cart_item, idx, best_discount_value, best_from, calls, cart_items,
                   item_discounts, result>>

DiscountIsEligible ==
    /\ pc = "discount"
    /\ \E c \in DiscountCartItemPool :
          /\ cart_item' = c
          /\ result' = is_eligible(discounts[1], c)
    /\ pc' = "is_eligible"
    /\ UNCHANGED <<history, args, discount_resolver_service,
                   conditions, discounts, idx, best_discount_value, best_from,
                   calls, cart_items, item_discounts>>

DiscountCalculate ==
    /\ pc = "discount"
    /\ \E c \in DiscountCartItemPool :
          /\ cart_item' = c
          /\ result' = calculate(discounts[1], c)
    /\ pc' = "calculate"
    /\ UNCHANGED <<history, args, discount_resolver_service,
                   conditions, discounts, idx, best_discount_value, best_from,
                   calls, cart_items, item_discounts>>

NextDiscount ==
    \/ NewAmountDiscount
    \/ NewPercentageDiscount
    \/ DiscountIsEligible
    \/ DiscountCalculate

SpecDiscount == Init /\ [][NextDiscount]_vars

(***************************************************************************)
(* BestDiscountResolverService: construction and calculate_discount.       *)
(***************************************************************************)
NewResolver ==
    /\ pc = "new"
    /\ \E ds \in SeqsUpTo(ResolverDiscountPool, MaxDiscounts) : discounts' = ds
    /\ pc' = "resolver"
    /\ UNCHANGED <<history, args, discount_resolver_service,
                   conditions, cart_item, idx, best_discount_value, best_from,
                   calls, cart_items, item_discounts, result>>

\* CalculateDiscount whose default is in one fixed currency.
CalculateDiscount_fixed_currency ==
    /\ pc = "resolver"
    /\ \E c \in ResolverCartItemPool :
          /\ cart_item' = c
          /\ best_discount_value' = Money(0, "EUR")
    /\ best_from' = 0
    /\ idx' = 1
    /\ calls' = <<>>
    /\ pc' = "loop"
    /\ UNCHANGED <<history, args, discount_resolver_service,
                   conditions, discounts, cart_items, item_discounts, result>>

\* calculate_discount enters _calculate_discount, which sets the default.
CalculateDiscount ==
    /\ pc = "resolver"
    /\ \E c \in ResolverCartItemPool :
          /\ cart_item' = c
          /\ best_discount_value' = Money(0, c.price.currency)
    /\ best_from' = 0
    /\ idx' = 1
    /\ calls' = <<>>
    /\ pc' = "loop"
    /\ UNCHANGED <<history, args, discount_resolver_service,
                   conditions, discounts, cart_items, item_discounts, result>>

\* One iteration of `for discount in self.discounts`.
LoopStep ==
    /\ pc = "loop"
    /\ idx <= Len(discounts)
    /\ LET discount_value == calculate(discounts[idx], cart_item)
       IN  /\ best_discount_value' =
                 BestStep(best_discount_value, discounts[idx], cart_item)
           /\ best_from' =
                 IF Replaces(discount_value, best_discount_value)
                 THEN idx
                 ELSE best_from
    /\ calls' = Append(calls, idx)
    /\ idx' = idx + 1
    /\ UNCHANGED <<history, args, discount_resolver_service,
                   pc, conditions, discounts, cart_item, cart_items,
                   item_discounts, result>>

\* ReturnDiscount that leaves the loop as soon as the best value exceeds the
\* line's total.
ReturnDiscount_early ==
    /\ pc = "loop"
    /\ \/ idx > Len(discounts)
       \/ best_discount_value.amount > total_price(cart_item).amount
    /\ result' = Cap(best_discount_value, cart_item)
    /\ pc' = "done"
    /\ UNCHANGED <<history, args, discount_resolver_service,
                   conditions, discounts, cart_item, idx, best_discount_value,
                   best_from, calls, cart_items, item_discounts>>

\* The loop is over: _calculate_discount returns and calculate_discount caps.
ReturnDiscount ==
    /\ pc = "loop"
    /\ idx > Len(discounts)
    /\ result' = Cap(best_discount_value, cart_item)
    /\ pc' = "done"
    /\ UNCHANGED <<history, args, discount_resolver_service,
                   conditions, discounts, cart_item, idx, best_discount_value,
                   best_from, calls, cart_items, item_discounts>>

\* calculate_discount of another subclass of DiscountResolverService, whose
\* _calculate_discount returns some Money: the base class caps it.
StrategyCalculateDiscount ==
    /\ pc = "new"
    /\ \E discount_value \in MoneyPool, c \in ResolverCartItemPool :
          /\ cart_item' = c
          /\ best_discount_value' = discount_value
          /\ result' = Cap(discount_value, c)
    /\ pc' = "done_strategy"
    /\ UNCHANGED <<history, args, discount_resolver_service, conditions, discounts, idx,
                   best_from, calls, cart_items, item_discounts>>

Next ==
    \/ NewResolver
    \/ CalculateDiscount
    \/ LoopStep
    \/ ReturnDiscount
    \/ StrategyCalculateDiscount

Spec == Init /\ [][Next]_vars

(***************************************************************************)
(* DiscountCalculatorService: construction and calculate_total_discount.   *)
(***************************************************************************)
\* DiscountCalculatorService.__init__ builds its resolver from the discounts.
NewCalculator ==
    /\ pc = "new"
    /\ \E ds \in SeqsUpTo(CalculatorDiscountPool, MaxDiscounts) :
          /\ discounts' = ds
          /\ discount_resolver_service' =
                DiscountCalculatorService_init(List(ds),
                                               "BestDiscountResolverService")
    /\ pc' = "calculator"
    /\ UNCHANGED <<history, args, conditions, cart_item, idx, best_discount_value,
                   best_from, calls, cart_items, item_discounts, result>>

CalculateTotalDiscount ==
    /\ pc = "calculator"
    /\ \E cart \in SeqsUpTo(CalculatorCartItemPool, MaxCartItems) :
          /\ cart_items' = cart
          /\ item_discounts' = ItemDiscounts(discount_resolver_service, cart)
          /\ result' = calculate_total_discount(discount_resolver_service, cart)
    /\ pc' = "total"
    /\ UNCHANGED <<history, args, discount_resolver_service,
                   conditions, discounts, cart_item, idx, best_discount_value,
                   best_from, calls>>

\* DiscountCalculatorService(resolver), as the calculator's unit tests build
\* it: the first positional argument, `discounts`, is a resolver object.
NewCalculatorInjected ==
    /\ pc = "new"
    /\ \E resolver \in InjectedResolverPool :
          /\ args' = [discounts |-> resolver]
          /\ discount_resolver_service' =
                DiscountCalculatorService_init(resolver,
                                               "BestDiscountResolverService")
    /\ pc' = "calculator_injected"
    /\ UNCHANGED <<history, conditions, discounts, cart_item, idx, best_discount_value,
                   best_from, calls, cart_items, item_discounts, result>>

\* calculate_total_discount on a calculator built that way. The list of
\* per-item results exists only if the comprehension ran to its end.
CalculateTotalDiscountInjected ==
    /\ pc = "calculator_injected"
    /\ \E cart \in SeqsUpTo(CalculatorCartItemPool, MaxCartItems) :
          /\ cart_items' = cart
          /\ result' = calculate_total_discount(discount_resolver_service, cart)
          /\ item_discounts' =
                IF result' = TypeError
                THEN <<>>
                ELSE ItemDiscounts(discount_resolver_service, cart)
    /\ pc' = "total_injected"
    /\ UNCHANGED <<history, args, discount_resolver_service,
                   conditions, discounts, cart_item, idx, best_discount_value,
                   best_from, calls>>

NextCalculator ==
    \/ NewCalculator
    \/ CalculateTotalDiscount
    \/ NewCalculatorInjected
    \/ CalculateTotalDiscountInjected

SpecCalculator == Init /\ [][NextCalculator]_vars

(***************************************************************************)
(* One calculator, its discount list and a cart, used again and again:     *)
(* calls of calculate_total_discount and calculate_discount, and attempts  *)
(* to assign the attributes of the value objects.                          *)
(***************************************************************************)
\* The caller builds a discount list, a cart and a calculator over the list.
NewSession ==
    /\ pc = "new"
    /\ \E ds \in DistinctSeqsUpTo(SessionDiscountPool, MaxDiscounts),
          cart \in DistinctSeqsUpTo(SessionCartItemPool, MaxCartItems) :
          /\ discounts' = ds
          /\ discount_resolver_service' =
                DiscountCalculatorService_init(List(ds),
                                               "BestDiscountResolverService")
          /\ cart_items' = cart
    /\ pc' = "session"
    /\ UNCHANGED <<history, args, conditions, cart_item, idx,
                   best_discount_value, best_from, calls, item_discounts,
                   result>>

\* calculate_total_discount(cart_items) on the calculator. The code assigns
\* nothing but locals.
SessionCalculateTotalDiscount ==
    /\ pc = "session"
    /\ Len(history) < MaxCalls
    /\ result' = calculate_total_discount(discount_resolver_service, cart_items)
    /\ history' = Append(history, [op |-> "calculate_total_discount",
                                   input |-> List(cart_items),
                                   outcome |-> result'])
    /\ args' = [op |-> "calculate_total_discount"]
    /\ UNCHANGED <<pc, conditions, discounts, cart_item, idx,
                   best_discount_value, best_from, calls, cart_items,
                   item_discounts, discount_resolver_service>>

\* SessionCalculateDiscount of a resolver that keeps its best value from one
\* call to the next instead of starting from the default.
SessionCalculateDiscount_carry ==
    /\ pc = "session"
    /\ Len(history) < MaxCalls
    /\ \E k \in 1 .. Len(cart_items) :
          LET c == cart_items[k]
              kept == IF /\ history # <<>>
                         /\ DOMAIN result = {"amount", "currency"}
                         /\ result.currency = c.price.currency
                      THEN result
                      ELSE Money(0, c.price.currency)
          IN  /\ result' = Cap(BestFrom(kept, discounts, 1, c), c)
              /\ history' = Append(history, [op |-> "calculate_discount",
                                             input |-> c,
                                             outcome |-> result'])
    /\ args' = [op |-> "calculate_discount"]
    /\ UNCHANGED <<pc, conditions, discounts, cart_item, idx,
                   best_discount_value, best_from, calls, cart_items,
                   item_discounts, discount_resolver_service>>

\* calculate_discount(cart_items[k]) on the calculator's resolver.
SessionCalculateDiscount ==
    /\ pc = "session"
    /\ Len(history) < MaxCalls
    /\ \E k \in 1 .. Len(cart_items) :
          /\ result' = resolver_calculate_discount(discount_resolver_service,
                                                   cart_items[k])
          /\ history' = Append(history, [op |-> "calculate_discount",
                                         input |-> cart_items[k],
                                         outcome |-> result'])
    /\ args' = [op |-> "calculate_discount"]
    /\ UNCHANGED <<pc, conditions, discounts, cart_item, idx,
                   best_discount_value, best_from, calls, cart_items,
                   item_discounts, discount_resolver_service>>

\* cart_items[k].name = value
SessionAssignCartItem ==
    /\ pc = "session"
    /\ \E k \in 1 .. Len(cart_items), name \in {"code", "price", "quantity"} :
          \E value \in AssignValues(name) :
             /\ cart_items' =
                   [cart_items EXCEPT
                       ![k] = setattr(@, CartItemProperties, name, value)]
             /\ args' = [op |-> "setattr", class |-> "CartItem", name |-> name]
             /\ result' = setattr_outcome(CartItemProperties, name)
    /\ UNCHANGED <<pc, history, conditions, discounts, cart_item, idx,
                   best_discount_value, best_from, calls, item_discounts,
                   discount_resolver_service>>

\* cart_items[k].price.name = value
SessionAssignMoney ==
    /\ pc = "session"
    /\ \E k \in 1 .. Len(cart_items), name \in {"amount", "currency"} :
          \E value \in AssignValues(name) :
             /\ cart_items' =
                   [cart_items EXCEPT
                       ![k].price = setattr(@, MoneyProperties, name, value)]
             /\ args' = [op |-> "setattr", class |-> "Money", name |-> name]
             /\ result' = setattr_outcome(MoneyProperties, name)
    /\ UNCHANGED <<pc, history, conditions, discounts, cart_item, idx,
                   best_discount_value, best_from, calls, item_discounts,
                   discount_resolver_service>>

\* discounts[j].percentage.percentage = value; the resolver holds the same
\* list object as the caller.
SessionAssignPercentage ==
    /\ pc = "session"
    /\ \E j \in 1 .. Len(discounts), value \in AssignValues("percentage") :
          /\ discounts[j].type = "PercentageDiscount"
          /\ discounts' =
                [discounts EXCEPT
                    ![j].percentage =
                        setattr(@, PercentageProperties, "percentage", value)]
          /\ discount_resolver_service' =
                [discount_resolver_service EXCEPT !.discounts = List(discounts')]
          /\ args' = [op |-> "setattr", class |-> "Percentage",
                      name |-> "percentage"]
          /\ result' = setattr_outcome(PercentageProperties, "percentage")
    /\ UNCHANGED <<pc, history, conditions, cart_item, idx,
                   best_discount_value, best_from, calls, cart_items,
                   item_discounts>>

NextSession ==
    \/ NewSession
    \/ SessionCalculateTotalDiscount
    \/ SessionCalculateDiscount
    \/ SessionAssignCartItem
    \/ SessionAssignMoney
    \/ SessionAssignPercentage

SpecSession == Init /\ [][NextSession]_vars

(***************************************************************************)
(* Methods called on their own: value objects and conditions.              *)
(***************************************************************************)
\* a + b on two Money objects.
MoneyAdd ==
    /\ pc = "new"
    /\ \E a \in MoneyPool, b \in MoneyPool :
          /\ args' = [self |-> a, other |-> b]
          /\ result' = Money_add(a, b)
    /\ pc' = "Money.__add__"
    /\ UNCHANGED <<history, conditions, discounts, cart_item, idx, best_discount_value,
                   best_from, calls, cart_items, item_discounts,
                   discount_resolver_service>>

\* Percentage(v)
NewPercentage ==
    /\ pc = "new"
    /\ \E v \in PercentageArgs :
          /\ args' = [percentage |-> v]
          /\ result' = Percentage(v)
    /\ pc' = "Percentage.__init__"
    /\ UNCHANGED <<history, conditions, discounts, cart_item, idx, best_discount_value,
                   best_from, calls, cart_items, item_discounts,
                   discount_resolver_service>>

\* CartItem(code, price, quantity).total_price
CartItemTotalPrice ==
    /\ pc = "new"
    /\ \E code \in Codes, price \in MoneyPool, quantity \in Quantities :
          /\ args' = [code |-> code, price |-> price, quantity |-> quantity]
          /\ result' = total_price(CartItem(code, price, quantity))
    /\ pc' = "CartItem.total_price"
    /\ UNCHANGED <<history, conditions, discounts, cart_item, idx, best_discount_value,
                   best_from, calls, cart_items, item_discounts,
                   discount_resolver_service>>

\* MinQuantityDiscountCondition(m).is_eligible(c)
MinQuantityIsEligible ==
    /\ pc = "new"
    /\ \E m \in MinQuantities, c \in CartItemPool :
          /\ args' = [self |-> MinQuantityDiscountCondition(m), cart_item |-> c]
          /\ result' = Condition_is_eligible(MinQuantityDiscountCondition(m), c)
    /\ pc' = "MinQuantityDiscountCondition.is_eligible"
    /\ UNCHANGED <<history, conditions, discounts, cart_item, idx, best_discount_value,
                   best_from, calls, cart_items, item_discounts,
                   discount_resolver_service>>

\* ProductCodeDiscountCondition(codes).is_eligible(c)
ProductCodeIsEligible ==
    /\ pc = "new"
    /\ \E codes \in SUBSET CaseCodes, code \in CaseCodes,
          price \in MoneyPool, quantity \in Quantities :
          LET c == CartItem(code, price, quantity)
          IN  /\ args' = [self |-> ProductCodeDiscountCondition(codes),
                          cart_item |-> c]
              /\ result' =
                    Condition_is_eligible(ProductCodeDiscountCondition(codes), c)
    /\ pc' = "ProductCodeDiscountCondition.is_eligible"
    /\ UNCHANGED <<history, conditions, discounts, cart_item, idx, best_discount_value,
                   best_from, calls, cart_items, item_discounts,
                   discount_resolver_service>>

\* DiscountCondition().is_eligible(c)
DiscountConditionIsEligible ==
    /\ pc = "new"
    /\ \E c \in CartItemPool :
          /\ args' = [self |-> DiscountCondition, cart_item |-> c]
          /\ result' = Condition_is_eligible(DiscountCondition, c)
    /\ pc' = "DiscountCondition.is_eligible"
    /\ UNCHANGED <<history, conditions, discounts, cart_item, idx, best_discount_value,
                   best_from, calls, cart_items, item_discounts,
                   discount_resolver_service>>

\* Discount(conditions)._calculate(c)
DiscountBaseCalculate ==
    /\ pc = "new"
    /\ \E cs \in ConditionArgs, c \in CartItemPool :
          /\ args' = [self |-> Discount(cs), cart_item |-> c]
          /\ result' = _calculate(Discount(cs), c)
    /\ pc' = "Discount._calculate"
    /\ UNCHANGED <<history, conditions, discounts, cart_item, idx, best_discount_value,
                   best_from, calls, cart_items, item_discounts,
                   discount_resolver_service>>

\* DiscountResolverService(discounts)._calculate_discount(c)
ResolverBaseCalculateDiscount ==
    /\ pc = "new"
    /\ \E ds \in SeqsUpTo(CalculatorDiscountPool, 1), c \in CartItemPool :
          /\ args' = [self |-> Resolver("DiscountResolverService", List(ds)),
                      cart_item |-> c]
          /\ result' = DiscountResolverService_calculate_discount(ds, c)
    /\ pc' = "DiscountResolverService._calculate_discount"
    /\ UNCHANGED <<history, conditions, discounts, cart_item, idx, best_discount_value,
                   best_from, calls, cart_items, item_discounts,
                   discount_resolver_service>>

NextUnit ==
    \/ DiscountConditionIsEligible
    \/ DiscountBaseCalculate
    \/ ResolverBaseCalculateDiscount
    \/ MoneyAdd
    \/ NewPercentage
    \/ CartItemTotalPrice
    \/ MinQuantityIsEligible
    \/ ProductCodeIsEligible

SpecUnit == Init /\ [][NextUnit]_vars

(***************************************************************************)
(* Properties of calculate_discount (checked under Spec).                  *)
(***************************************************************************)
\* The largest and the smallest element of a non-empty set of integers.
MaxOf(S) == CHOOSE x \in S : \A y \in S : y <= x
MinOf(S) == CHOOSE x \in S : \A y \in S : x <= y

\* The line's total, price.amount * quantity, written out.
LineTotal == cart_item.price.amount * cart_item.quantity

\* The positions of the discounts that are eligible for the cart item and
\* whose raw amount is in the currency of its price.
Applicable ==
    {k \in 1 .. Len(discounts) :
        /\ \A j \in 1 .. Len(discounts[k].conditions) :
              Condition_is_eligible(discounts[k].conditions[j], cart_item)
        /\ _calculate(discounts[k], cart_item).currency = cart_item.price.currency}

\* The amount discount k computes for the cart item.
AmountOf(k) == _calculate(discounts[k], cart_item).amount

ApplicableAmounts == {AmountOf(k) : k \in Applicable}

\* C1: the discount resolved for a line never exceeds the line's total price.
CapInvariant ==
    pc = "done" => result.amount <= LineTotal

\* C1 witness: the best discount exceeded the total and the cap replaced it.
CapWitness ==
    /\ pc = "done"
    /\ best_discount_value.amount > LineTotal
    /\ LineTotal > 0
    /\ result.amount = LineTotal

\* C2: the discount resolved for a line is never negative, for every cart item
\* that can be constructed.
NonNegativeDiscount ==
    pc = "done" => result.amount >= 0

\* C3 as stated: the resolved amount is the maximum of the applicable
\* discounts' amounts, or 0 if there is none.  Stated for the inputs without
\* a negative price, quantity or discount amount, where it already fails.
BestSelectionUncapped ==
    (/\ pc = "done"
     /\ cart_item.price.amount >= 0
     /\ cart_item.quantity >= 0
     /\ \A a \in ApplicableAmounts : a >= 0)
        => result.amount =
              IF ApplicableAmounts = {} THEN 0 ELSE MaxOf(ApplicableAmounts)

\* C3 amended: the resolved amount is the smaller of the line's total and M,
\* where M is the maximum of 0 and the applicable discounts' amounts.
BestSelectionCapped ==
    pc = "done" =>
        LET M == MaxOf(ApplicableAmounts \cup {0})
        IN  result.amount = IF M > LineTotal THEN LineTotal ELSE M

\* C3 witness: two applicable discounts of different positive amounts, the
\* larger one (below the total) is the result.
BestSelectionWitness ==
    /\ pc = "done"
    /\ \E j, k \in Applicable : 0 < AmountOf(j) /\ AmountOf(j) < AmountOf(k)
    /\ result.amount = MaxOf(ApplicableAmounts)
    /\ result.amount < LineTotal

\* The applicable discounts among those the loop has looked at so far.
Seen == {k \in Applicable : k < idx}

\* Those of them that compute the largest amount seen.
SeenTies ==
    LET seen == Seen
        largest == MaxOf({AmountOf(j) : j \in seen})
    IN  {k \in seen : AmountOf(k) = largest}

\* C4 as stated: when two or more discounts compute the same maximal amount,
\* the value selected is the one of the earliest of them.  Stated for the
\* discounts without a negative amount, where it already fails.
TieBreakFirst ==
    pc = "done" =>
        LET ties == SeenTies
        IN  (Cardinality(ties) >= 2 /\ \A k \in ties : AmountOf(k) >= 0)
               => best_from = MinOf(ties)

\* C4 amended: when two or more discounts compute the same maximal amount and
\* that amount is greater than 0, the value selected is the one of the
\* earliest of them, at every point of the loop (so a later equal amount never
\* replaces it).
TieBreakFirstPositive ==
    pc \in {"loop", "done"} =>
        LET ties == SeenTies
        IN  (Cardinality(ties) >= 2 /\ \A k \in ties : AmountOf(k) > 0)
               => /\ best_from = MinOf(ties)
                  /\ best_discount_value =
                        _calculate(discounts[best_from], cart_item)

\* C4 witness: the loop is over, the first two discounts tie at a positive
\* maximum and the first one is selected.
TieBreakWitness ==
    /\ pc = "done"
    /\ SeenTies = {1, 2}
    /\ AmountOf(1) > 0
    /\ best_from = 1

\* C5: the resolved amount is 0, the line's total, or the amount of one single
\* discount of the list; amounts are never added up.
NoStacking ==
    pc = "done" => result.amount \in ({0, LineTotal} \cup ApplicableAmounts)

\* C5 witness: two discounts apply with positive amounts, and the result is
\* the amount of one of them, not their sum.
NoStackingWitness ==
    /\ pc = "done"
    /\ Cardinality(Applicable) = 2
    /\ \A k \in Applicable : AmountOf(k) > 0
    /\ result.amount \in ApplicableAmounts
    /\ result.amount < AmountOf(1) + AmountOf(2)
    /\ AmountOf(1) + AmountOf(2) <= LineTotal

(***************************************************************************)
(* Properties of Discount (checked under SpecDiscount).                    *)
(***************************************************************************)
\* The discount under test.
TheDiscount == discounts[1]

\* Every condition of the discount under test accepts the cart item.
AllConditionsMet ==
    \A k \in 1 .. Len(TheDiscount.conditions) :
        Condition_is_eligible(TheDiscount.conditions[k], cart_item)

\* C6: calculate returns None exactly when the discount is not eligible or
\* its raw amount is in another currency than the price; otherwise it returns
\* the raw amount unchanged, a zero amount included.
CalculateAbsentIff ==
    pc = "calculate" =>
        LET raw == _calculate(TheDiscount, cart_item)
            absent == \/ ~AllConditionsMet
                      \/ raw.currency # cart_item.price.currency
        IN  /\ (result = None) <=> absent
            /\ ~absent => result = raw

\* C6 witness: an eligible, currency-matching discount of raw amount 0 returns
\* a Money of amount 0, not None.
CalculateZeroWitness ==
    /\ pc = "calculate"
    /\ AllConditionsMet
    /\ Len(TheDiscount.conditions) > 0
    /\ _calculate(TheDiscount, cart_item) = Money(0, cart_item.price.currency)
    /\ result = Money(0, cart_item.price.currency)

\* C8: for a non-negative unit price P and an eligible item, a percentage
\* discount of p returns floor(P * p / 100) in the currency of the price,
\* whatever the quantity is.
PercentageFloor ==
    (/\ pc = "calculate"
     /\ TheDiscount.type = "PercentageDiscount"
     /\ cart_item.price.amount >= 0
     /\ AllConditionsMet)
        => LET P == cart_item.price.amount
               p == TheDiscount.percentage.percentage
           IN  /\ result # None
               /\ result.currency = cart_item.price.currency
               /\ 100 * result.amount <= P * p
               /\ P * p < 100 * (result.amount + 1)
               /\ \A q \in Quantities :
                     LET other == CartItem(cart_item.code, cart_item.price, q)
                     IN  is_eligible(TheDiscount, other)
                            => calculate(TheDiscount, other) = result

\* C8 witness: 15% of a price of 99 on a line of two units is 14.
PercentageFloorWitness ==
    /\ pc = "calculate"
    /\ TheDiscount.type = "PercentageDiscount"
    /\ TheDiscount.percentage.percentage = TestPercentage
    /\ cart_item.price.amount = TestPrice
    /\ cart_item.quantity = 2
    /\ AllConditionsMet
    /\ result = Money(14, cart_item.price.currency)

\* C9: for an eligible item priced in the discount's currency, a fixed amount
\* discount returns exactly the configured amount, whatever the unit price and
\* the quantity are.
AmountFixed ==
    (/\ pc = "calculate"
     /\ TheDiscount.type = "AmountDiscount"
     /\ AllConditionsMet
     /\ TheDiscount.amount.currency = cart_item.price.currency)
        => result = TheDiscount.amount

\* C9 witness: a fixed amount above the unit price on a line of two units is
\* returned as configured.
AmountFixedWitness ==
    /\ pc = "calculate"
    /\ TheDiscount.type = "AmountDiscount"
    /\ AllConditionsMet
    /\ cart_item.quantity = 2
    /\ TheDiscount.amount.amount > cart_item.price.amount
    /\ cart_item.price.amount > 0
    /\ result = TheDiscount.amount

\* C10: is_eligible is the conjunction of the conditions: true when the list
\* is empty or was given as None, false as soon as one condition is false,
\* wherever it stands.
EligibleIsConjunction ==
    pc = "is_eligible" =>
        /\ result = AllConditionsMet
        /\ (conditions = None => result = TRUE)
        /\ (conditions # None /\ conditions.items = <<>> => result = TRUE)
        /\ (conditions # None =>
              /\ Len(TheDiscount.conditions) = Len(conditions.items)
              /\ \A k \in 1 .. Len(conditions.items) :
                    ~Condition_is_eligible(conditions.items[k], cart_item)
                        => result = FALSE)

\* C10 witness: the first of two conditions holds, the second does not, and
\* the discount is not eligible.
EligibleWitness ==
    /\ pc = "is_eligible"
    /\ conditions # None
    /\ Len(conditions.items) = 2
    /\ Condition_is_eligible(conditions.items[1], cart_item)
    /\ ~Condition_is_eligible(conditions.items[2], cart_item)
    /\ result = FALSE

(***************************************************************************)
(* Properties of calculate_total_discount (checked under SpecCalculator).  *)
(***************************************************************************)
\* Discount d computes, for c, an amount in another currency than c's price.
OtherCurrency(d, c) == _calculate(d, c).currency # c.price.currency

\* The discount list without the discounts that are in another currency for c.
WithoutOtherCurrency(ds, c) == SelectSeq(ds, LAMBDA d : ~OtherCurrency(d, c))

MinQuantityEligibleIff ==
    pc = "MinQuantityDiscountCondition.is_eligible"
        => /\ result \in BOOLEAN
           /\ result <=> args.cart_item.quantity >= args.self.min_quantity
           /\ args.cart_item.quantity = args.self.min_quantity => result

\* C11 witness: the boundary, a quantity equal to the minimum, is eligible.
MinQuantityBoundaryWitness ==
    /\ pc = "MinQuantityDiscountCondition.is_eligible"
    /\ args.self.min_quantity > 0
    /\ args.cart_item.quantity = args.self.min_quantity
    /\ result = TRUE

\* C12: ProductCodeDiscountCondition(codes).is_eligible(C) is true exactly
\* when C.code is one of the codes, compared as exact strings; with no codes
\* nothing is eligible.
ProductCodeEligibleIff ==
    pc = "ProductCodeDiscountCondition.is_eligible"
        => /\ result \in BOOLEAN
           /\ result <=> \E c \in args.self.product_codes :
                             c = args.cart_item.code
           /\ args.self.product_codes = {} => ~result

\* C12 witness: a code that differs from the only listed code by case is
\* not eligible.
ProductCodeCaseWitness ==
    /\ pc = "ProductCodeDiscountCondition.is_eligible"
    /\ args.self.product_codes = {"A"}
    /\ args.cart_item.code = "a"
    /\ result = FALSE

\* C13: a + b on two Money objects raises the currency error when the
\* currencies differ, and is Money(a.amount + b.amount, a.currency) when
\* they are the same.
MoneyAddContract ==
    pc = "Money.__add__"
        => IF args.self.currency # args.other.currency
           THEN result = ValueError
           ELSE result = Money(args.self.amount + args.other.amount,
                               args.self.currency)

\* C13 witness: two positive amounts of different currencies do not add.
MoneyAddMismatchWitness ==
    /\ pc = "Money.__add__"
    /\ args.self.amount > 0
    /\ args.other.amount > 0
    /\ args.self.currency # args.other.currency
    /\ result = ValueError

\* C14: Percentage(v) gives an instance exactly when 0 <= v <= 100, and
\* raises the value error for every v below 0 or above 100.
PercentageRange ==
    pc = "Percentage.__init__"
        => IF 0 <= args.percentage /\ args.percentage <= 100
           THEN result = [percentage |-> args.percentage]
           ELSE result = ValueError

\* C14 witness: the upper bound 100 is accepted.
PercentageBoundWitness ==
    /\ pc = "Percentage.__init__"
    /\ args.percentage = 100
    /\ result = [percentage |-> 100]

\* C15: total_price of CartItem(code, price, quantity) is a Money of amount
\* price.amount * quantity in the currency of the price.
TotalPriceIsProduct ==
    pc = "CartItem.total_price"
        => /\ result.amount = args.price.amount * args.quantity
           /\ result.currency = args.price.currency
           /\ DOMAIN result = {"amount", "currency"}

\* C15 witness: a quantity above one of a price above one.
TotalPriceWitness ==
    /\ pc = "CartItem.total_price"
    /\ args.price.amount = MaxPrice
    /\ args.quantity = MaxQuantity
    /\ result = Money(MaxPrice * MaxQuantity, args.price.currency)

(***************************************************************************)
(* Properties of the calculator's total (checked under SpecCalculator).    *)
(***************************************************************************)
\* All lines of the cart are priced in one currency.
SameCurrency(cart) ==
    \A j, k \in 1 .. Len(cart) : cart[j].price.currency = cart[k].price.currency

RECURSIVE AmountsFrom(_, _)
\* The sum of the amounts of xs[k], xs[k + 1], ...
AmountsFrom(xs, k) ==
    IF k > Len(xs) THEN 0 ELSE xs[k].amount + AmountsFrom(xs, k + 1)

\* C16: calculate_total_discount([]) returns the integer 0, a value without
\* amount or currency, whatever the calculator was built with, and no call
\* of the resolver's calculate_discount is made.
EmptyCartIntZero ==
    pc \in {"total", "total_injected"} /\ cart_items = <<>>
        => /\ result = IntZero
           /\ DOMAIN result \cap {"amount", "currency", "raised"} = {}
           /\ item_discounts = <<>>

\* C16 witness: the empty cart on a calculator built with a full list of
\* discounts.
EmptyCartWitness ==
    /\ pc = "total"
    /\ cart_items = <<>>
    /\ Len(discounts) = MaxDiscounts
    /\ discount_resolver_service.discounts.items = discounts
    /\ result = IntZero

\* C17: for a non-empty cart in one currency the total is a Money of that
\* currency whose amount is the sum of the amounts calculate_discount of the
\* calculator's resolver gives for the lines, each line once.
TotalIsSumOfLines ==
    pc = "total" /\ cart_items # <<>> /\ SameCurrency(cart_items)
        => /\ Len(item_discounts) = Len(cart_items)
           /\ \A k \in 1 .. Len(cart_items) :
                 item_discounts[k] = calculate_discount(discounts, cart_items[k])
           /\ result = Money(AmountsFrom(item_discounts, 1),
                             cart_items[1].price.currency)

\* C17 witness: two lines in one currency, one resolved to 0 and one to a
\* positive amount, which is the total.
TotalIsSumWitness ==
    /\ pc = "total"
    /\ Len(cart_items) = 2
    /\ SameCurrency(cart_items)
    /\ discounts # <<>>
    /\ item_discounts[1].amount > 0
    /\ item_discounts[2].amount = 0
    /\ result = Money(item_discounts[1].amount, cart_items[1].price.currency)

\* C18: a cart with two lines priced in different currencies makes
\* calculate_total_discount raise the currency error of Money addition, for
\* every discount list.
MixedCurrencyRaises ==
    pc = "total" /\ ~SameCurrency(cart_items) => result = ValueError

\* C18 witness: every line of a cart of two currencies resolves to a zero
\* discount, and the total still raises.
MixedCurrencyZeroWitness ==
    /\ pc = "total"
    /\ ~SameCurrency(cart_items)
    /\ discounts # <<>>
    /\ \A k \in 1 .. Len(item_discounts) : item_discounts[k].amount = 0
    /\ result = ValueError

\* C19: a calculator constructed with a resolver object holds that resolver
\* as discount_resolver_service, and its total is the sum of what that
\* resolver's calculate_discount returns for the lines of the cart.
InjectedResolverUsed ==
    /\ pc \in {"calculator_injected", "total_injected"}
          => discount_resolver_service = args.discounts
    /\ pc = "total_injected"
          => result = calculate_total_discount(args.discounts, cart_items)

(***************************************************************************)
(* Properties of the base classes (checked under SpecUnit).                *)
(***************************************************************************)
\* C20: DiscountCondition.is_eligible, Discount._calculate and
\* DiscountResolverService._calculate_discount raise NotImplementedError for
\* every cart item and return no value.
AbstractRaises ==
    pc \in {"DiscountCondition.is_eligible", "Discount._calculate",
            "DiscountResolverService._calculate_discount"}
        => result = NotImplementedError

\* C20 witness: the base condition raises on an item of positive price and
\* quantity.
AbstractRaisesWitness ==
    /\ pc = "DiscountCondition.is_eligible"
    /\ args.self = DiscountCondition
    /\ args.cart_item.price.amount > 0
    /\ args.cart_item.quantity > 0
    /\ result = NotImplementedError

(***************************************************************************)
(* The division of PercentageDiscount (checked under SpecDiscount).        *)
(***************************************************************************)
\* a / b with the fractional part discarded toward zero, for b > 0.
Truncated(a, b) == IF a >= 0 THEN a \div b ELSE 0 - ((0 - a) \div b)

\* C26: for every unit price P, negative ones included, and every percentage
\* p, the amount of a percentage discount is P * p / 100 truncated toward
\* zero.
PercentageTruncates ==
    (/\ pc = "calculate"
     /\ TheDiscount.type = "PercentageDiscount"
     /\ AllConditionsMet)
        => /\ result # None
           /\ result.amount =
                 Truncated(cart_item.price.amount
                              * TheDiscount.percentage.percentage, 100)

(***************************************************************************)
(* Further properties of calculate_discount (checked under Spec).          *)
(***************************************************************************)
\* C23: calculate_discount returns the line's total price exactly when the
\* amount _calculate_discount returned is strictly greater than the total's
\* amount, and returns that value unchanged otherwise, for
\* BestDiscountResolverService and for any other subclass.
ExactCap ==
    pc \in {"done", "done_strategy"}
        => /\ best_discount_value.amount > LineTotal
                 => result = Money(LineTotal, cart_item.price.currency)
           /\ best_discount_value.amount <= LineTotal
                 => result = best_discount_value
           /\ result # best_discount_value
                 => best_discount_value.amount > LineTotal

\* C23 witness: the best discount of a list equals the line's total and is
\* returned as it is.
ExactCapWitness ==
    /\ pc = "done"
    /\ best_from > 0
    /\ best_discount_value.amount = LineTotal
    /\ result = best_discount_value

\* The values of another subclass may be in a currency that is not the
\* line's: at equal amounts the value, not the total price, is returned.
ExactCapStrategyWitness ==
    /\ pc = "done_strategy"
    /\ best_discount_value.amount = LineTotal
    /\ best_discount_value.currency # cart_item.price.currency
    /\ result = best_discount_value

\* C24: during one call of calculate_discount, calculate is invoked once on
\* every discount of the list, in list order, whatever the best value is
\* meanwhile.
EveryDiscountCalledOnce ==
    /\ pc = "loop" => calls = [k \in 1 .. idx - 1 |-> k]
    /\ pc = "done" => calls = [k \in 1 .. Len(discounts) |-> k]

\* C24 witness: the first discount of the list already exceeds the line's
\* total and is the best, and the second one was evaluated all the same.
EveryDiscountCalledWitness ==
    /\ pc = "done"
    /\ Len(discounts) = MaxDiscounts
    /\ best_from = 1
    /\ best_discount_value.amount > LineTotal
    /\ LineTotal > 0
    /\ calls = [k \in 1 .. MaxDiscounts |-> k]

\* The orders of a list of n elements.
Orders(n) ==
    {f \in [1 .. n -> 1 .. n] : \A i, j \in 1 .. n : f[i] = f[j] => i = j}

\* The list ds in the order f.
Reordered(ds, f) == [k \in 1 .. Len(ds) |-> ds[f[k]]]

\* C25: every reordering of the discount list resolves the same amount and
\* currency for the cart item.
OrderInsensitive ==
    pc = "done"
        => \A f \in Orders(Len(discounts)) :
              LET other == calculate_discount(Reordered(discounts, f), cart_item)
              IN  /\ other.amount = result.amount
                  /\ other.currency = result.currency

\* C25 witness: two applicable discounts of different amounts, the smaller
\* first; the list the other way round resolves the same.
OrderInsensitiveWitness ==
    /\ pc = "done"
    /\ Len(discounts) = 2
    /\ Applicable = {1, 2}
    /\ 0 < AmountOf(1)
    /\ AmountOf(1) < AmountOf(2)
    /\ AmountOf(2) <= LineTotal
    /\ result.amount = AmountOf(2)
    /\ calculate_discount(<<discounts[2], discounts[1]>>, cart_item) = result

\* The list without its last discount.
Front(ds) == SubSeq(ds, 1, Len(ds) - 1)

\* C27: the amount resolved with one more discount at the end of the list
\* is never lower than the amount resolved without it.
Monotone ==
    pc = "done" /\ discounts # <<>>
        => calculate_discount(Front(discounts), cart_item).amount
              <= result.amount

\* C27 witness: the added discount is smaller than the best of the list
\* before it, and the resolved amount stays.
MonotoneWitness ==
    /\ pc = "done"
    /\ Len(discounts) = 2
    /\ Applicable = {1, 2}
    /\ AmountOf(2) < AmountOf(1)
    /\ 0 < AmountOf(2)
    /\ AmountOf(1) <= LineTotal
    /\ result.amount = AmountOf(1)
    /\ calculate_discount(Front(discounts), cart_item).amount = AmountOf(1)

\* C28: the Money calculate_discount returns is in the currency of the cart
\* item's price, whether it is the default, a discount's value or the capped
\* total price, and whatever currencies the discounts are in.
CurrencyPreserved ==
    pc = "done" => result.currency = cart_item.price.currency

\* C28 witness: the only discount is in another currency than the line, and
\* the default comes back in the line's currency.
CurrencyPreservedWitness ==
    /\ pc = "done"
    /\ Len(discounts) = 1
    /\ discounts[1].type = "AmountDiscount"
    /\ discounts[1].amount.amount > 0
    /\ discounts[1].amount.currency # cart_item.price.currency
    /\ cart_item.price.currency = "USD"
    /\ result = Money(0, "USD")

(***************************************************************************)
(* Properties of repeated use (checked under SpecSession).                 *)
(***************************************************************************)
\* An attempt to assign an attribute of a value object raises.
AssignFails ==
    pc = "session" /\ args # None /\ args.op = "setattr"
        => result = AttributeError

\* No step after construction changes the cart list, the discount list, the
\* calculator's resolver or a value object in them.
NothingChanges ==
    pc = "session"
        => /\ cart_items' = cart_items
           /\ discounts' = discounts
           /\ discount_resolver_service' = discount_resolver_service

\* C21: after construction no attribute of a Money, a Percentage or a
\* CartItem changes: assigning one raises and leaves the value as it was,
\* and the calls of the library leave the objects and lists they are given
\* as they were.
Immutable == []AssignFails /\ [][NothingChanges]_vars

\* C21 witness: after a call, assigning the quantity of the first line of
\* the cart raised and the quantity is what it was constructed with.
ImmutableWitness ==
    /\ pc = "session"
    /\ history # <<>>
    /\ args = [op |-> "setattr", class |-> "CartItem", name |-> "quantity"]
    /\ result = AttributeError
    /\ cart_items # <<>>
    /\ cart_items[1].quantity = MaxQuantity

\* A calculator newly built over the discount list.
FreshCalculator ==
    DiscountCalculatorService_init(List(discounts), "BestDiscountResolverService")

====
